---- MODULE Spec2Model ----
\* State-machine model of tools/analyze_apk.py (the APK report assembler) and
\* tools/fetch_gdrive.py (the download utility).
\*
\* Conventions
\*   - Python dicts are functions over string keys; a key that was never
\*     assigned is outside DOMAIN.
\*   - Python None is the value None below; it differs from every attribute
\*     string the model draws.
\*   - A message (str(e), an f-string) is a sequence of its pieces.
\*   - A path is the sequence of its components; an absolute path starts "/".
\*   - The androguard APK object is the record `apk`: what each accessor
\*     returns, and `fault`, the one call that raises an exception which
\*     nothing below main catches.  After the first such exception main calls
\*     nothing more, so one site describes every run.
EXTENDS Integers, Sequences, FiniteSets, TLC

VARIABLES
    androguard, \* analyze_apk: whether the import of lines 9-10 succeeds
    sys_argv,   \* analyze_apk: sys.argv
    fs,         \* analyze_apk: the absolute paths that exist
    apk,        \* analyze_apk: the archive at the path, as androguard sees it
    pc,         \* analyze_apk: position in main
    apk_path,   \* analyze_apk: main's local apk_path
    result,     \* analyze_apk: main's in-flight report
    exc,        \* analyze_apk: str(e) of the exception travelling to line 207
    stdout,     \* analyze_apk: the documents printed so far
    rc,         \* analyze_apk: the exit statuses given (none while running)
    g_argv,     \* fetch_gdrive: sys.argv
    g_env,      \* fetch_gdrive: whether `import gdown` and os.makedirs succeed
    g_pc,       \* fetch_gdrive: position in main
    pairs,      \* fetch_gdrive: parse_args' result
    idx,        \* fetch_gdrive: index of the pair the loop is at
    status,     \* fetch_gdrive: main's local status
    attempts,   \* fetch_gdrive: the gdown.download calls made, with outcome
    g_stderr,   \* fetch_gdrive: the lines written to stderr
    g_rc        \* fetch_gdrive: the exit statuses given (none while running)

avars == <<androguard, sys_argv, fs, apk, pc, apk_path, result, exc, stdout, rc>>
gvars == <<g_argv, g_env, g_pc, pairs, idx, status, attempts, g_stderr, g_rc>>
vars == <<avars, gvars>>

-----------------------------------------------------------------------------
\* Bounds of the model.

\* Longest list of names the five list accessors return in total.
MaxNames == 3
\* Most certificates the three scheme accessors return in total.
MaxCerts == 3
\* Most command-line arguments given to the download utility.
MaxArgs == 6

-----------------------------------------------------------------------------
\* Python values.

None == "None"
EmptyDict == <<>>

\* dict.get(key, default)
Get(d, k, default) == IF k \in DOMAIN d THEN d[k] ELSE default

\* The names an accessor may list, in ascending (lexicographic) order.
Names == <<"a.A", "a.B">>
NameSet == {Names[i] : i \in 1..Len(Names)}
Rank(n) == CHOOSE i \in 1..Len(Names) : Names[i] = n

SeqsUpTo(S, n) == UNION {[1..k -> S] : k \in 0..n}

RECURSIVE Insert(_, _)
Insert(x, s) ==
    IF s = <<>> THEN <<x>>
    ELSE IF Rank(x) < Rank(Head(s)) THEN <<x>> \o s
    ELSE <<Head(s)>> \o Insert(x, Tail(s))

\* sorted(list): ascending, every element kept.
RECURSIVE sorted(_)
sorted(s) == IF s = <<>> THEN <<>> ELSE Insert(Head(s), sorted(Tail(s)))

RECURSIVE ToSet(_)
ToSet(s) == IF s = <<>> THEN {} ELSE {Head(s)} \cup ToSet(Tail(s))

\* sorted(list(set(list))): ascending, one copy of each element.
sorted_set(s) ==
    SelectSeq(Names, LAMBDA n : n \in ToSet(s))

\* Python's `x or []` for an accessor that may return None.
OrEmpty(x) == IF x.none THEN <<>> ELSE x.items

-----------------------------------------------------------------------------
\* Paths.

CWD == <<"/", "cwd">>
isabs(p) == p # <<>> /\ p[1] = "/"
abspath(p) == CWD \o p

-----------------------------------------------------------------------------
\* hashlib.sha256(data).hexdigest(): the digest is a value determined by the
\* bytes and by nothing else; distinct byte strings have distinct digests.
sha256_hexdigest(data) == [alg |-> "sha256", of |-> data]

\* compute_sha256: the chunks read are the file's bytes in order, so the
\* digest fed chunk by chunk is the digest of the whole content.
compute_sha256(content) == sha256_hexdigest(content)

-----------------------------------------------------------------------------
\* The decoded manifest.  An element is the record of its attributes under the
\* android namespace (None where the attribute is missing) and of its child
\* lists; root.find(tag) is the first element of the child list, or nothing.

find(children) == IF children = <<>> THEN <<>> ELSE <<children[1]>>

\* get_attr(elem, name); elem is the result of find (<<>> stands for None)
get_attr(elem, name) == IF elem = <<>> THEN None ELSE elem[1][name]

Map(f(_), s) == [i \in 1..Len(s) |-> f(s[i])]

data_item(d) ==
    [scheme |-> get_attr(<<d>>, "scheme"), host |-> get_attr(<<d>>, "host"),
     path |-> get_attr(<<d>>, "path"), mimeType |-> get_attr(<<d>>, "mimeType")]

filter_item(f) ==
    [hasCategoryLAUNCHER |->
        \E i \in 1..Len(f.category) :
            f.category[i].name = "android.intent.category.LAUNCHER",
     actions |->
        Map(LAMBDA a : get_attr(<<a>>, "name"),
            SelectSeq(f.action, LAMBDA a : get_attr(<<a>>, "name") # None
                                           /\ get_attr(<<a>>, "name") # "")),
     data |-> Map(data_item, f.data)]

component_item(el) ==
    [name |-> get_attr(<<el>>, "name"),
     exported |-> get_attr(<<el>>, "exported"),
     intent_filters |-> Map(filter_item, el.intent_filter)]

collect_components(elems) == Map(component_item, elems)

\* The names of the uses-permission elements that have a non-empty name.
permission_names(elems) ==
    Map(LAMBDA e : get_attr(<<e>>, "name"),
        SelectSeq(elems, LAMBDA e : get_attr(<<e>>, "name") # None
                                    /\ get_attr(<<e>>, "name") # ""))

application_record(root) ==
    LET application == find(root.application) IN
    [debuggable |-> (get_attr(application, "debuggable") = "true"),
     allowBackup |-> get_attr(application, "allowBackup"),
     usesCleartextTraffic |-> get_attr(application, "usesCleartextTraffic"),
     networkSecurityConfig |-> get_attr(application, "networkSecurityConfig"),
     requestsLegacyExternalStorage |->
        get_attr(application, "requestLegacyExternalStorage"),
     backupAgent |-> get_attr(application, "backupAgent")]

ParseErrorMessage == <<"not well-formed">>

\* parse_manifest after line 38 returned the XML bytes: xml.parseable is
\* whether ET.fromstring accepts them, xml.root the tree it builds.
project_manifest(xml) ==
    LET root == xml.root
        uses_sdk == find(root.uses_sdk) IN
    [package_name |-> root.package,
     version_code |-> get_attr(<<root>>, "versionCode"),
     version_name |-> get_attr(<<root>>, "versionName"),
     min_sdk |-> get_attr(uses_sdk, "minSdkVersion"),
     target_sdk |-> get_attr(uses_sdk, "targetSdkVersion"),
     application |-> application_record(root),
     permissions |-> sorted_set(permission_names(root.uses_permission)),
     activities |-> collect_components(root.activity),
     services |-> collect_components(root.service),
     receivers |-> collect_components(root.receiver),
     providers |-> collect_components(root.provider)]

parse_manifest(xml) ==
    IF ~xml.parseable
    THEN [manifest_parse_error |-> ParseErrorMessage]
    ELSE project_manifest(xml)

-----------------------------------------------------------------------------
\* get_signing_info.  A scheme accessor is [raises, certs]: it raises, or it
\* returns the list certs.  A list item is [hashable, data]: bytes (what a DER
\* certificate is) are hashable; an item hashlib.sha256 rejects is not.

SigningErrorMessage == <<"object supporting the buffer API required">>

\* Lines 119-131: each accessor in its own try, v2 then v3 then v1.
accessor_certs(acc) == IF acc.raises THEN <<>> ELSE acc.certs
gathered_certs_v1_first(signing) ==
    accessor_certs(signing.v1) \o accessor_certs(signing.v2)
        \o accessor_certs(signing.v3)
gathered_certs(signing) ==
    accessor_certs(signing.v2) \o accessor_certs(signing.v3)
        \o accessor_certs(signing.v1)

\* Lines 132-142 under the handler of lines 143-144: the loop over certs with
\* the set `seen` and the list info["signers"] built so far.
RECURSIVE digest_loop(_, _, _)
digest_loop(certs, seen, signers) ==
    IF certs = <<>> THEN [signers |-> signers]
    ELSE LET c == Head(certs)
             digest == sha256_hexdigest(c.data) IN
         IF c.data = <<>> THEN digest_loop(Tail(certs), seen, signers)
         ELSE IF ~c.hashable
              THEN [signers |-> signers, error |-> SigningErrorMessage]
         ELSE IF digest \in seen THEN digest_loop(Tail(certs), seen, signers)
         ELSE digest_loop(Tail(certs), seen \cup {digest},
                          Append(signers, [sha256 |-> digest]))

get_signing_info(signing) == digest_loop(gathered_certs(signing), {}, <<>>)

-----------------------------------------------------------------------------
\* The heuristics of main, lines 188-203, over app_cfg.

H_DBG001 == [id |-> "DBG001", severity |-> "medium",
             title |-> <<"Application is debuggable">>]
H_BK001 == [id |-> "BK001", severity |-> "medium",
            title |-> <<"allowBackup is enabled or unspecified (defaults true)">>]
H_CL001 == [id |-> "CL001", severity |-> "info",
            title |-> <<"usesCleartextTraffic not explicitly set">>]
H_CL002 == [id |-> "CL002", severity |-> "high",
            title |-> <<"Cleartext traffic is allowed for the application">>]
H_NSC001(nsc) == [id |-> "NSC001", severity |-> "info",
                  title |-> <<"Custom networkSecurityConfig present: ", nsc>>]

\* Python truthiness of an attribute value (None or a string).
truthy(v) == v # None /\ v # ""

debuggable_rule(app_cfg) ==
    IF Get(app_cfg, "debuggable", FALSE) THEN <<H_DBG001>> ELSE <<>>

backup_rule_default_false(app_cfg) ==
    LET allow_backup == Get(app_cfg, "allowBackup", "false") IN
    IF allow_backup = None \/ allow_backup = "true" THEN <<H_BK001>> ELSE <<>>

backup_rule(app_cfg) ==
    LET allow_backup == Get(app_cfg, "allowBackup", None) IN
    IF allow_backup = None \/ allow_backup = "true" THEN <<H_BK001>> ELSE <<>>

cleartext_rule_no_elif(app_cfg) ==
    LET uct == Get(app_cfg, "usesCleartextTraffic", None) IN
    (IF uct = None THEN <<H_CL001>> ELSE <<>>)
        \o (IF uct # "false" THEN <<H_CL002>> ELSE <<>>)

cleartext_rule(app_cfg) ==
    LET uct == Get(app_cfg, "usesCleartextTraffic", None) IN
    IF uct = None THEN <<H_CL001>>
    ELSE IF uct = "true" THEN <<H_CL002>>
    ELSE <<>>

nsc_rule(app_cfg) ==
    LET nsc == Get(app_cfg, "networkSecurityConfig", None) IN
    IF truthy(nsc) THEN <<H_NSC001(nsc)>> ELSE <<>>

evaluate_heuristics_reordered(app_cfg) ==
    debuggable_rule(app_cfg) \o cleartext_rule(app_cfg)
        \o backup_rule(app_cfg) \o nsc_rule(app_cfg)

evaluate_heuristics(app_cfg) ==
    debuggable_rule(app_cfg) \o backup_rule(app_cfg)
        \o cleartext_rule(app_cfg) \o nsc_rule(app_cfg)

\* result.get("manifest", {}).get("application", {})
app_cfg_of(res) == Get(Get(res, "manifest", EmptyDict), "application", EmptyDict)

-----------------------------------------------------------------------------
\* The inputs of analyze_apk.py.

Prog == "analyze_apk.py"
RelPath == <<"app.apk">>
AbsPath == <<"/", "data", "app.apk">>
Argvs == {<<Prog>>, <<Prog, RelPath>>, <<Prog, AbsPath>>,
          <<Prog, RelPath, AbsPath>>}
FileSystems == SUBSET {abspath(RelPath), AbsPath}

\* The calls of main's try block that can raise into the handler of line 207.
FaultSites ==
    {"os.path.getsize", "compute_sha256", "APK",
     "get_androidversion_name", "get_androidversion_code",
     "get_min_sdk_version", "get_target_sdk_version", "get_max_sdk_version",
     "get_android_manifest_axml", "get_permissions", "get_main_activity",
     "get_activities", "get_services", "get_receivers", "get_providers",
     "json.dumps"}
NoFault == "none"
Faults == FaultSites \cup {NoFault}

AttrValues == {None, "true", "false"}
AppElems ==
    {[debuggable |-> d, allowBackup |-> b, usesCleartextTraffic |-> u,
      networkSecurityConfig |-> n, requestLegacyExternalStorage |-> None,
      backupAgent |-> None] :
        d \in AttrValues, b \in AttrValues, u \in AttrValues \cup {"1"},
        n \in {None, "", "@xml/nsc"}}
Applications == {<<>>} \cup {<<a>> : a \in AppElems}

DefaultApp ==
    <<[debuggable |-> "true", allowBackup |-> None,
       usesCleartextTraffic |-> "true", networkSecurityConfig |-> "@xml/nsc",
       requestLegacyExternalStorage |-> None, backupAgent |-> None]>>

RootWith(app) ==
    [package |-> "com.example", versionCode |-> "7", versionName |-> "1.0",
     uses_sdk |-> <<[minSdkVersion |-> "21", targetSdkVersion |-> "33"]>>,
     application |-> app,
     uses_permission |-> <<[name |-> "a.B"], [name |-> "a.A"],
                           [name |-> "a.B"], [name |-> None]>>,
     activity |->
        <<[name |-> "a.A", exported |-> None,
           intent_filter |->
              <<[category |-> <<[name |-> "android.intent.category.LAUNCHER"]>>,
                 action |-> <<[name |-> "android.intent.action.MAIN"],
                              [name |-> None]>>,
                 data |-> <<[scheme |-> "https", host |-> None,
                             path |-> None, mimeType |-> None]>>]>>]>>,
     service |-> <<>>,
     receiver |-> <<[name |-> "a.B", exported |-> "true",
                     intent_filter |-> <<>>]>>,
     provider |-> <<>>]

Unparseable == [parseable |-> FALSE]
XmlWith(app) == [parseable |-> TRUE, root |-> RootWith(app)]
PolicyXmls == {Unparseable} \cup {XmlWith(app) : app \in Applications}

ListKeys == {"permissions", "activities", "services", "receivers", "providers"}
ComponentKeys == ListKeys \ {"permissions"}

\* The names tagged k, in order, of a sequence of <<key, name>> pairs.
Tagged(s, k) ==
    Map(LAMBDA e : e[2], SelectSeq(s, LAMBDA e : e[1] = k))

\* What the five list accessors return: lists of at most n names in total;
\* none_key is the component accessor that returns None instead of [].
ListsOf(s, none_key) ==
    [permissions |-> Tagged(s, "permissions"),
     activities |-> [none |-> none_key = "activities",
                     items |-> Tagged(s, "activities")],
     services |-> [none |-> none_key = "services",
                   items |-> Tagged(s, "services")],
     receivers |-> [none |-> none_key = "receivers",
                    items |-> Tagged(s, "receivers")],
     providers |-> [none |-> none_key = "providers",
                    items |-> Tagged(s, "providers")]]

ListWorlds(n) ==
    {ListsOf(s, k) :
        <<s, k>> \in {w \in SeqsUpTo(ListKeys \X NameSet, n)
                             \X (ComponentKeys \cup {"-"}) :
                        w[2] = "-" \/ Tagged(w[1], w[2]) = <<>>}}

DefaultLists == ListsOf(<<<<"permissions", "a.B">>, <<"permissions", "a.A">>,
                          <<"activities", "a.A">>, <<"receivers", "a.B">>>>,
                        "services")

B0 == [hashable |-> TRUE, data |-> <<>>]
B1 == [hashable |-> TRUE, data |-> <<48, 1>>]
B2 == [hashable |-> TRUE, data |-> <<48, 2>>]
NotBytes == [hashable |-> FALSE, data |-> <<0>>]
CertItems == {B0, B1, B2, NotBytes}
Schemes == {"v2", "v3", "v1"}

SigningOf(s, raising) ==
    [v2 |-> [raises |-> "v2" \in raising, certs |-> Tagged(s, "v2")],
     v3 |-> [raises |-> "v3" \in raising, certs |-> Tagged(s, "v3")],
     v1 |-> [raises |-> "v1" \in raising, certs |-> Tagged(s, "v1")]]

\* What the three scheme accessors do: at most n items in total; an accessor
\* that raises returns nothing.
SigningWorlds(n) ==
    {SigningOf(w[1], w[2]) :
        w \in {w \in SeqsUpTo(Schemes \X CertItems, n) \X SUBSET Schemes :
                 \A k \in w[2] : Tagged(w[1], k) = <<>>}}

DefaultSigning == SigningOf(<<<<"v2", B1>>, <<"v1", B1>>>>, {"v3"})

Content == <<80, 75, 3, 4>>

Archive(fault, xml, lists, signing) ==
    [fault |-> fault, content |-> Content,
     badging |-> [package |-> "com.example", version_name |-> "1.0",
                  version_code |-> "7", min_sdk |-> "21",
                  target_sdk |-> "33", max_sdk |-> None],
     xml |-> xml, lists |-> lists, main_activity |-> "a.A",
     signing |-> signing]

-----------------------------------------------------------------------------
\* analyze_apk.main, one action per step of its body.

ImportErrorDoc ==
    [ok |-> FALSE, error |-> <<"Androguard not installed or failed to import">>,
     detail |-> <<"No module named 'androguard'">>]
UsageDoc ==
    [ok |-> FALSE, error |-> <<"Usage: analyze_apk.py /absolute/path/to/app.apk">>]
NotFoundDoc(path) == [ok |-> FALSE, error |-> <<"APK not found: ">> \o path]
ErrorDoc(message) == [ok |-> FALSE, error |-> message]

\* str(e) of the exception the call `site` raises.
Raised(site) == <<"exception in ", site>>

\* print(json.dumps(doc)): one more document on standard output.
print_json(doc) == Append(stdout, doc)

\* Assignments result[key] = val in order, each after the call `site` that
\* computes val (key "-": a call that assigns nothing; site "-": no call that
\* can raise); the call that is apk.fault raises and the rest is skipped.
RECURSIVE run_steps(_, _, _)
run_steps(res, steps, fault) ==
    IF steps = <<>> THEN [res |-> res, raised |-> FALSE]
    ELSE IF Head(steps).site = fault THEN [res |-> res, raised |-> TRUE]
    ELSE IF Head(steps).key = "-" THEN run_steps(res, Tail(steps), fault)
    ELSE run_steps((Head(steps).key :> Head(steps).val) @@ res,
                   Tail(steps), fault)

\* One statement group of the try block: on an exception control goes to the
\* handler of line 207 with what was assigned so far left in result.
TryStep(from, to, res, steps) ==
    LET r == run_steps(res, steps, apk.fault) IN
    /\ pc = from
    /\ result' = r.res
    /\ pc' = IF r.raised THEN "except" ELSE to
    /\ exc' = IF r.raised THEN Raised(apk.fault) ELSE exc
    /\ UNCHANGED <<androguard, sys_argv, fs, apk, apk_path, stdout, rc, gvars>>

\* Lines 9-17, then line 216 calls main.
Import ==
    /\ pc = "import"
    /\ IF ~androguard
       THEN /\ stdout' = print_json(ImportErrorDoc)
            /\ rc' = Append(rc, 1)
            /\ pc' = "done"
       ELSE /\ pc' = "start"
            /\ UNCHANGED <<stdout, rc>>
    /\ UNCHANGED <<androguard, sys_argv, fs, apk, apk_path, result, exc, gvars>>

\* Lines 149-154.
CheckArgs ==
    /\ pc = "start"
    /\ IF Len(sys_argv) < 2
       THEN /\ stdout' = print_json(UsageDoc)
            /\ rc' = Append(rc, 2)
            /\ pc' = "done"
       ELSE /\ pc' = "resolve"
            /\ UNCHANGED <<stdout, rc>>
    /\ UNCHANGED <<androguard, sys_argv, fs, apk, apk_path, result, exc, gvars>>

resolve_unresolved(arg) == arg
resolve(arg) == IF ~isabs(arg) THEN abspath(arg) ELSE arg

\* Lines 156-161.
ResolvePath ==
    /\ pc = "resolve"
    /\ apk_path' = resolve(sys_argv[2])
    /\ IF apk_path' \notin fs
       THEN /\ stdout' = print_json(NotFoundDoc(apk_path'))
            /\ rc' = Append(rc, 1)
            /\ pc' = "done"
       ELSE /\ pc' = "identity"
            /\ UNCHANGED <<stdout, rc>>
    /\ UNCHANGED <<androguard, sys_argv, fs, apk, result, exc, gvars>>

\* Lines 163-167.
FileIdentity ==
    TryStep("identity", "open", [ok |-> TRUE],
        <<[site |-> "-", key |-> "file_path", val |-> apk_path],
          [site |-> "os.path.getsize", key |-> "file_size_bytes",
           val |-> Len(apk.content)],
          [site |-> "compute_sha256", key |-> "sha256",
           val |-> compute_sha256(apk.content)]>>)

\* Line 169: APK(apk_path) assigns nothing to result.
OpenArchive ==
    TryStep("open", "badging", result,
        <<[site |-> "APK", key |-> "-", val |-> None]>>)

\* Lines 170-177: the dict literal is evaluated whole before result["badging"]
\* is assigned, so an accessor that raises leaves no badging key.
badging_sites ==
    {"get_androidversion_name", "get_androidversion_code",
     "get_min_sdk_version", "get_target_sdk_version", "get_max_sdk_version"}
badging_site_isolated(fault) == "badging"
badging_site(fault) == IF fault \in badging_sites THEN fault ELSE "badging"
Badging ==
    TryStep("badging", "manifest", result,
        <<[site |-> badging_site(apk.fault), key |-> "badging",
           val |-> [package_name |-> apk.badging.package,
                    version_name |-> apk.badging.version_name,
                    version_code |-> apk.badging.version_code,
                    min_sdk |-> apk.badging.min_sdk,
                    target_sdk |-> apk.badging.target_sdk,
                    max_sdk |-> apk.badging.max_sdk]]>>)

\* Line 178: line 38 is outside parse_manifest's try, so a failure of the
\* AXML decoding call raises into main; ET.fromstring is inside it.
Manifest ==
    TryStep("manifest", "lists", result,
        <<[site |-> "get_android_manifest_axml", key |-> "manifest",
           val |-> parse_manifest(apk.xml)]>>)

\* Lines 179-184.
permissions_declared(l) == sorted(l.permissions)
activities_all(l) == sorted(OrEmpty(l.activities))
services_all(l) == sorted(OrEmpty(l.services))
receivers_all(l) == sorted(OrEmpty(l.receivers))
providers_all(l) == sorted(OrEmpty(l.providers))

ComponentLists ==
    TryStep("lists", "signing", result,
        <<[site |-> "get_permissions", key |-> "permissions_declared",
           val |-> permissions_declared(apk.lists)],
          [site |-> "get_main_activity", key |-> "main_activity",
           val |-> apk.main_activity],
          [site |-> "get_activities", key |-> "activities_all",
           val |-> activities_all(apk.lists)],
          [site |-> "get_services", key |-> "services_all",
           val |-> services_all(apk.lists)],
          [site |-> "get_receivers", key |-> "receivers_all",
           val |-> receivers_all(apk.lists)],
          [site |-> "get_providers", key |-> "providers_all",
           val |-> providers_all(apk.lists)]>>)

\* Line 185: get_signing_info catches everything it raises.
Signing ==
    TryStep("signing", "heuristics", result,
        <<[site |-> "-", key |-> "signing",
           val |-> get_signing_info(apk.signing)]>>)

\* Lines 188-203.
Heuristics ==
    TryStep("heuristics", "emit", result,
        <<[site |-> "-", key |-> "heuristics",
           val |-> evaluate_heuristics(app_cfg_of(result))]>>)

\* Lines 205-206: json.dumps raises before print writes anything.
Emit ==
    /\ pc = "emit"
    /\ IF apk.fault = "json.dumps"
       THEN /\ pc' = "except"
            /\ exc' = Raised(apk.fault)
            /\ UNCHANGED <<stdout, rc>>
       ELSE /\ stdout' = print_json(result)
            /\ rc' = Append(rc, 0)
            /\ pc' = "done"
            /\ UNCHANGED exc
    /\ UNCHANGED <<androguard, sys_argv, fs, apk, apk_path, result, gvars>>

\* What the handler prints.
handler_doc_partial(res, message) == ErrorDoc(message) @@ res
handler_doc(res, message) == ErrorDoc(message)

\* Lines 207-212.
Handler ==
    /\ pc = "except"
    /\ stdout' = print_json(handler_doc(result, exc))
    /\ rc' = Append(rc, 1)
    /\ pc' = "done"
    /\ UNCHANGED <<androguard, sys_argv, fs, apk, apk_path, result, exc, gvars>>

AnalyzeNext ==
    \/ Import
    \/ CheckArgs
    \/ ResolvePath
    \/ FileIdentity
    \/ OpenArchive
    \/ Badging
    \/ Manifest
    \/ ComponentLists
    \/ Signing
    \/ Heuristics
    \/ Emit
    \/ Handler

\* fetch_gdrive.py is not running.
FetchIdle ==
    /\ g_argv = <<>> /\ g_env = [gdown |-> TRUE, makedirs |-> TRUE]
    /\ g_pc = "idle" /\ pairs = <<>> /\ idx = 0 /\ status = 0
    /\ attempts = <<>> /\ g_stderr = <<>> /\ g_rc = <<>>

AnalyzeStart(argv, files, archive) ==
    /\ androguard = TRUE
    /\ sys_argv = argv /\ fs = files /\ apk = archive
    /\ pc = "import" /\ apk_path = <<>> /\ result = EmptyDict
    /\ exc = <<>> /\ stdout = <<>> /\ rc = <<>>
    /\ FetchIdle

\* An invocation on a machine where androguard cannot be imported.
NoAndroguardStart ==
    \E argv \in Argvs, files \in FileSystems :
        /\ androguard = FALSE
        /\ sys_argv = argv /\ fs = files
        /\ apk = Archive(NoFault, XmlWith(DefaultApp), DefaultLists,
                         DefaultSigning)
        /\ pc = "import" /\ apk_path = <<>> /\ result = EmptyDict
        /\ exc = <<>> /\ stdout = <<>> /\ rc = <<>>
        /\ FetchIdle

\* Every invocation and every failing call, over every application policy.
Init ==
    \/ NoAndroguardStart
    \/ \E argv \in Argvs, files \in FileSystems, fault \in Faults,
       xml \in PolicyXmls :
        AnalyzeStart(argv, files,
                     Archive(fault, xml, DefaultLists, DefaultSigning))

Spec == Init /\ [][AnalyzeNext]_vars


\* Every invocation and every failing call on the default archive.
BaseStart ==
    \/ NoAndroguardStart
    \/ \E argv \in Argvs, files \in FileSystems, fault \in Faults :
        AnalyzeStart(argv, files,
                     Archive(fault, XmlWith(DefaultApp), DefaultLists,
                             DefaultSigning))

\* An invocation whose path exists and in which no call raises into main.
GoodStart(xml, lists, signing) ==
    AnalyzeStart(<<Prog, RelPath>>, {abspath(RelPath)},
                 Archive(NoFault, xml, lists, signing))

\* As BaseStart, and every list the list accessors can return.
InitLists ==
    \/ BaseStart
    \/ \E lists \in ListWorlds(MaxNames),
          xml \in {Unparseable, XmlWith(DefaultApp)} :
            GoodStart(xml, lists, DefaultSigning)

SpecLists == InitLists /\ [][AnalyzeNext]_vars

\* As BaseStart, and everything the scheme accessors can do.
InitSigning ==
    \/ BaseStart
    \/ \E signing \in SigningWorlds(MaxCerts) :
            GoodStart(XmlWith(DefaultApp), DefaultLists, signing)

SpecSigning == InitSigning /\ [][AnalyzeNext]_vars

-----------------------------------------------------------------------------
\* fetch_gdrive.py.  A string is the sequence of its characters.

GProg == <<"f">>
LongId == [i \in 1..20 |-> "x"]
ShortId == [i \in 1..19 |-> "x"]
UrlArg == <<"h", ":", "/", "f">>
OutArg == <<"o">>
Tokens == {LongId, ShortId, UrlArg, OutArg}
GArgvs(n) == {<<GProg>> \o a : a \in SeqsUpTo(Tokens, n)}

UrlPrefix == <<"h", "t", "t", "p", "s", ":", "/", "/", "d", "r", "i", "v", "e",
               ".", "g", "o", "o", "g", "l", "e", ".", "c", "o", "m", "/", "u",
               "c", "?", "i", "d", "=">>

\* Lines 31-33.
resolve_url(src) ==
    IF (\A i \in 1..Len(src) : src[i] # "/") /\ Len(src) >= 20
    THEN UrlPrefix \o src
    ELSE src

\* Lines 11-15.
pairs_of(argv) ==
    LET args == Tail(argv) IN
    [i \in 1..(Len(args) \div 2) |-> <<args[2 * i - 1], args[2 * i]>>]

\* Lines 8-10 and 11-15 of parse_args, called at line 19.
ParseArgs ==
    /\ g_pc = "parse_args"
    /\ IF Len(g_argv) < 3 \/ Len(g_argv) % 2 = 0
       THEN /\ g_stderr' = Append(g_stderr, "usage")
            /\ g_rc' = Append(g_rc, 2)
            /\ g_pc' = "done"
            /\ UNCHANGED pairs
       ELSE /\ pairs' = pairs_of(g_argv)
            /\ g_pc' = "import"
            /\ UNCHANGED <<g_stderr, g_rc>>
    /\ UNCHANGED <<g_argv, g_env, idx, status, attempts, avars>>

\* Lines 20-27: the import, os.makedirs (an exception there is caught by
\* nothing: the interpreter prints the traceback and exits 1), status = 0.
Prepare ==
    /\ g_pc = "import"
    /\ IF ~g_env.gdown
       THEN /\ g_stderr' = Append(g_stderr, "gdown is not installed")
            /\ g_rc' = Append(g_rc, 1)
            /\ g_pc' = "done"
            /\ UNCHANGED <<status, idx>>
       ELSE IF ~g_env.makedirs
       THEN /\ g_stderr' = Append(g_stderr, "traceback")
            /\ g_rc' = Append(g_rc, 1)
            /\ g_pc' = "done"
            /\ UNCHANGED <<status, idx>>
       ELSE /\ status' = 0
            /\ idx' = 1
            /\ g_pc' = "loop"
            /\ UNCHANGED <<g_stderr, g_rc>>
    /\ UNCHANGED <<g_argv, g_env, pairs, attempts, avars>>

\* Lines 36-38: status after one pair, given whether its download raised.
next_status_reset(old, raised) == IF raised THEN 1 ELSE 0
next_status(old, raised) == IF raised THEN 1 ELSE old

\* Lines 28-38, one pair: gdown.download returns or raises.
Download ==
    /\ g_pc = "loop"
    /\ idx <= Len(pairs)
    /\ \E raised \in BOOLEAN :
        /\ attempts' = Append(attempts,
                              [url |-> resolve_url(pairs[idx][1]),
                               out |-> pairs[idx][2], raised |-> raised])
        /\ status' = next_status(status, raised)
        /\ g_stderr' = IF raised THEN Append(g_stderr, "[gdown] Failed")
                       ELSE g_stderr
    /\ idx' = idx + 1
    /\ UNCHANGED <<g_argv, g_env, g_pc, pairs, g_rc, avars>>

\* Line 39, and sys.exit(main()) of line 43.
Return ==
    /\ g_pc = "loop"
    /\ idx > Len(pairs)
    /\ g_rc' = Append(g_rc, status)
    /\ g_pc' = "done"
    /\ UNCHANGED <<g_argv, g_env, pairs, idx, status, attempts, g_stderr, avars>>

FetchNext ==
    \/ ParseArgs
    \/ Prepare
    \/ Download
    \/ Return

\* analyze_apk.py is not running.
AnalyzeIdle ==
    /\ androguard = TRUE /\ sys_argv = <<>> /\ fs = {} /\ apk = EmptyDict /\ pc = "idle"
    /\ apk_path = <<>> /\ result = EmptyDict /\ exc = <<>>
    /\ stdout = <<>> /\ rc = <<>>

InitFetch ==
    /\ g_argv \in GArgvs(MaxArgs)
    /\ g_env \in [gdown : BOOLEAN, makedirs : BOOLEAN]
    /\ g_pc = "parse_args" /\ pairs = <<>> /\ idx = 0 /\ status = 0
    /\ attempts = <<>> /\ g_stderr = <<>> /\ g_rc = <<>>
    /\ AnalyzeIdle

SpecFetch == InitFetch /\ [][FetchNext]_vars

-----------------------------------------------------------------------------
\* Properties of analyze_apk.py.

Finished == pc = "done"
\* The invocation got past the pre-flight checks of lines 149-161.
PathExists == androguard /\ Len(sys_argv) >= 2 /\ apk_path \in fs
\* main printed a report with ok = true.
Reported == Finished /\ Len(stdout) = 1 /\ stdout[1].ok
ids(h) == [i \in 1..Len(h) |-> h[i].id]
Elems(s) == {s[i] : i \in 1..Len(s)}
NoRepeat(s) == \A i, j \in 1..Len(s) : i # j => s[i] # s[j]

RECURSIVE IsSubseq(_, _)
IsSubseq(s, t) ==
    IF s = <<>> THEN TRUE
    ELSE IF t = <<>> THEN FALSE
    ELSE IF Head(s) = Head(t) THEN IsSubseq(Tail(s), Tail(t))
    ELSE IsSubseq(s, Tail(t))

\* The application element the archive's manifest holds, as find sees it.
InputApp ==
    IF apk.xml.parseable THEN apk.xml.root.application ELSE <<>>
InputAttr(name) == IF InputApp = <<>> THEN None ELSE InputApp[1][name]

\* C1: the heuristics list of every report main prints is a subsequence of
\* DBG001, BK001, (CL001 or CL002), NSC001 with no id twice, and for
\* debuggable=true, allowBackup absent, usesCleartextTraffic="true",
\* networkSecurityConfig="@xml/nsc" it is [DBG001, BK001, CL002, NSC001].
C1_HeuristicOrder ==
    Reported =>
        LET h == ids(stdout[1].heuristics) IN
        /\ \/ IsSubseq(h, <<"DBG001", "BK001", "CL001", "NSC001">>)
           \/ IsSubseq(h, <<"DBG001", "BK001", "CL002", "NSC001">>)
        /\ NoRepeat(h)
        /\ (/\ InputAttr("debuggable") = "true"
            /\ InputAttr("allowBackup") = None
            /\ InputAttr("usesCleartextTraffic") = "true"
            /\ InputAttr("networkSecurityConfig") = "@xml/nsc")
           => h = <<"DBG001", "BK001", "CL002", "NSC001">>

\* A report for the policy of the example, with all four rules fired.
C1_Witness ==
    /\ Reported
    /\ InputAttr("debuggable") = "true" /\ InputAttr("allowBackup") = None
    /\ InputAttr("usesCleartextTraffic") = "true"
    /\ InputAttr("networkSecurityConfig") = "@xml/nsc"
    /\ Len(stdout[1].heuristics) = 4

\* C2: once the path is resolved and exists, a call of the pipeline that
\* raises into main makes main print exactly {ok: false, error: <message>} and
\* return 1, with none of the fields assembled so far in the output.
C2_ExceptionGivesErrorRecord ==
    (Finished /\ PathExists /\ apk.fault # NoFault) =>
        /\ stdout = <<[ok |-> FALSE, error |-> Raised(apk.fault)]>>
        /\ DOMAIN stdout[1] = {"ok", "error"}
        /\ rc = <<1>>

\* The last list accessor raised with most of the report already assembled.
C2_Witness ==
    /\ Finished /\ PathExists /\ apk.fault = "get_providers"
    /\ {"file_path", "sha256", "badging", "manifest", "receivers_all"}
           \subseteq DOMAIN result
    /\ rc = <<1>>

C10_ParseErrorReport ==
    (Finished /\ PathExists /\ apk.fault = NoFault /\ ~apk.xml.parseable) =>
        /\ Len(stdout) = 1 /\ stdout[1].ok /\ rc = <<0>>
        /\ stdout[1].manifest = [manifest_parse_error |-> ParseErrorMessage]
        /\ ids(stdout[1].heuristics) = <<"BK001", "CL001">>

\* A report printed for an archive whose manifest XML does not parse.
C10_Witness ==
    /\ Reported /\ ~apk.xml.parseable
    /\ "manifest_parse_error" \in DOMAIN stdout[1].manifest

\* C7: a run prints at most one document and gives at most one exit code,
\* both in its last step and not before; when main is invoked, no argument
\* gives 2 with ok = false before the path is examined, and a resolved path
\* that does not exist gives 1 with ok = false and an error naming the
\* resolved absolute path before any archive reading; the exit code is 0
\* exactly when the document has ok = true.
C7_OneDocumentOneExitCode ==
    /\ Len(stdout) <= 1 /\ Len(rc) <= 1
    /\ Finished <=> Len(stdout) = 1
    /\ Finished <=> Len(rc) = 1
    /\ Finished \/ ENABLED AnalyzeNext
    /\ Finished =>
        /\ (androguard /\ Len(sys_argv) < 2) =>
               /\ rc = <<2>> /\ ~stdout[1].ok
               /\ apk_path = <<>> /\ result = EmptyDict
        /\ (androguard /\ Len(sys_argv) >= 2) =>
               LET arg == sys_argv[2]
                   absolute == IF arg[1] = "/" THEN arg ELSE CWD \o arg IN
               absolute \notin fs =>
                   /\ rc = <<1>> /\ ~stdout[1].ok
                   /\ absolute[1] = "/"
                   /\ stdout[1].error = <<"APK not found: ">> \o absolute
                   /\ result = EmptyDict
        /\ rc = <<0>> <=> stdout[1].ok

\* A relative path that resolves to a file that does not exist.
C7_Witness ==
    /\ Finished /\ sys_argv = <<Prog, RelPath>> /\ abspath(RelPath) \notin fs
    /\ rc = <<1>>

\* C8: no heuristics list holds both CL001 and CL002; CL001 is there exactly
\* when usesCleartextTraffic is absent, CL002 exactly when it is "true", and
\* for "false" neither is.
C8_CleartextExclusive ==
    Reported =>
        LET h == Elems(ids(stdout[1].heuristics))
            uct == InputAttr("usesCleartextTraffic") IN
        /\ ~("CL001" \in h /\ "CL002" \in h)
        /\ "CL001" \in h <=> uct = None
        /\ "CL002" \in h <=> uct = "true"
        /\ uct = "false" => "CL001" \notin h /\ "CL002" \notin h

\* A report for usesCleartextTraffic="false".
C8_Witness ==
    /\ Reported /\ InputAttr("usesCleartextTraffic") = "false"
    /\ "CL001" \notin Elems(ids(stdout[1].heuristics))

\* The signing object of the report, and what the accessors returned: the
\* lists of the accessors that did not raise, v2 then v3 then v1.
SigningInfo == stdout[1].signing
Returned(acc) == IF acc.raises THEN <<>> ELSE acc.certs
ReturnedItems ==
    Returned(apk.signing.v2) \o Returned(apk.signing.v3)
        \o Returned(apk.signing.v1)
AllRaise ==
    apk.signing.v2.raises /\ apk.signing.v3.raises /\ apk.signing.v1.raises

\* C4 as stated: if all three scheme accessors fail, or the archive has no
\* signing information at all, the signing object carries an error string
\* instead of a signer list, and the report still has ok = true.
C4_ErrorWhenNothingSigned ==
    (Finished /\ PathExists /\ apk.fault = NoFault
        /\ (AllRaise \/ ReturnedItems = <<>>)) =>
        /\ Reported
        /\ "error" \in DOMAIN SigningInfo
        /\ "signers" \notin DOMAIN SigningInfo

\* Index of the first item that hashlib rejects (past the end if none); empty
\* items are skipped before they are digested.
FirstRejected ==
    LET bad == {k \in 1..Len(ReturnedItems) :
                    /\ ReturnedItems[k].data # <<>>
                    /\ ~ReturnedItems[k].hashable} IN
    IF bad = {} THEN Len(ReturnedItems) + 1
    ELSE CHOOSE k \in bad : \A m \in bad : k <= m

\* Where a digest is first seen among the items returned.
Seen(d) ==
    {k \in 1..(FirstRejected - 1) :
        /\ ReturnedItems[k].data # <<>>
        /\ [alg |-> "sha256", of |-> ReturnedItems[k].data] = d}
FirstSeen(d) == CHOOSE k \in Seen(d) : \A m \in Seen(d) : k <= m

\* C5: whatever the three accessors do, the signers list has no two entries
\* with the same sha256, holds the digest of every certificate returned by an
\* accessor that did not fail, and lists them in first-seen order over the
\* certificates of v2, then v3, then v1.
C5_SignersDedupedInOrder ==
    Reported =>
        LET d == [i \in 1..Len(SigningInfo.signers) |->
                      SigningInfo.signers[i].sha256] IN
        /\ NoRepeat(d)
        /\ \A i \in 1..Len(d) : Seen(d[i]) # {}
        /\ \A k \in 1..(FirstRejected - 1) :
               ReturnedItems[k].data # <<>> =>
                   [alg |-> "sha256", of |-> ReturnedItems[k].data] \in Elems(d)
        /\ \A i, j \in 1..Len(d) : i < j => FirstSeen(d[i]) < FirstSeen(d[j])
        /\ "error" \in DOMAIN SigningInfo
               <=> FirstRejected <= Len(ReturnedItems)

\* v3 fails; v2 returns two certificates and v1 the second of them again.
C5_Witness ==
    /\ Reported
    /\ apk.signing.v3.raises
    /\ apk.signing.v2.certs = <<B2, B1>> /\ apk.signing.v1.certs = <<B1>>
    /\ Len(SigningInfo.signers) = 2
    /\ SigningInfo.signers[1].sha256.of = B2.data

Ascending(s) == \A i, j \in 1..Len(s) : i < j => Rank(s[i]) <= Rank(s[j])

\* C6 as stated: in every report with ok = true, permissions_declared and each
\* of the four *_all lists is sorted ascending and holds no entry twice.
C6_SortedNoDuplicates ==
    Reported =>
        \A key \in {"permissions_declared", "activities_all", "services_all",
                    "receivers_all", "providers_all"} :
            Ascending(stdout[1][key]) /\ NoRepeat(stdout[1][key])

-----------------------------------------------------------------------------
\* Properties of fetch_gdrive.py.

GDone == g_pc = "done"
UsageError == Len(g_argv) < 3 \/ Len(g_argv) % 2 = 0
SomeFailed == \E i \in 1..Len(attempts) : attempts[i].raised
\* The number of (source, destination) pairs on the command line.
NPairs == (Len(g_argv) - 1) \div 2
InArgumentOrder ==
    \A i \in 1..Len(attempts) :
        /\ attempts[i].out = g_argv[2 * i + 1]
        /\ \/ attempts[i].url = g_argv[2 * i]
           \/ attempts[i].url = UrlPrefix \o g_argv[2 * i]

\* C9 as stated: the utility attempts every pair in argument order whatever
\* failed before it, the exit status is nonzero if and only if at least one
\* pair failed, and a failure once recorded is never reset.
C9_ExitNonzeroIffPairFailed ==
    /\ (GDone /\ ~UsageError) =>
        /\ Len(attempts) = NPairs /\ InArgumentOrder
        /\ g_rc # <<0>> <=> SomeFailed
    /\ g_pc = "loop" => (SomeFailed => status # 0)

\* C9 amended: when the arguments parse into pairs, gdown imports and the
\* artifacts directory can be made, every pair is attempted in argument order
\* whatever failed before it, the exit status is 1 if at least one pair failed
\* and 0 otherwise, and a recorded failure is never reset; otherwise no pair
\* is attempted and the exit status is nonzero: 2 for a usage error, 1 for a
\* missing gdown or a failing os.makedirs.
C9_LoopStatus ==
    /\ GDone =>
        /\ Len(g_rc) = 1
        /\ UsageError => g_rc = <<2>> /\ attempts = <<>>
        /\ (~UsageError /\ ~(g_env.gdown /\ g_env.makedirs)) =>
               g_rc = <<1>> /\ attempts = <<>>
        /\ (~UsageError /\ g_env.gdown /\ g_env.makedirs) =>
               /\ Len(attempts) = NPairs /\ InArgumentOrder
               /\ g_rc = <<IF SomeFailed THEN 1 ELSE 0>>
    /\ g_pc = "loop" =>
        /\ Len(attempts) = idx - 1 /\ InArgumentOrder
        /\ status = IF SomeFailed THEN 1 ELSE 0

\* Two pairs, the first failed and the second succeeded; exit status 1.
C9_Witness ==
    /\ GDone /\ Len(attempts) = 2
    /\ attempts[1].raised /\ ~attempts[2].raised
    /\ g_rc = <<1>>

====
